---- MODULE Spec2Model ----
(***************************************************************************)
(* Role assignment and dismissal of the shoeshop users API                 *)
(* (Shoe-site-Backend/shoeshop/users/views.py).                            *)
(*                                                                         *)
(* The database holds the CustomUser rows (six boolean role flags each)    *)
(* and the StoreOwner table (migration 0002: a OneToOneField to the user). *)
(* Requests are served concurrently; every ORM statement is its own        *)
(* autocommit transaction, so a request is a sequence of atomic steps, one *)
(* per database statement, each followed by the local code up to the next  *)
(* statement.                                                              *)
(***************************************************************************)
EXTENDS Integers, Sequences, FiniteSets, TLC

\* ------------------------------------------------------------------ bounds

NumUsers == 2
MaxBatch == 2

UserIds == 1..NumUsers
\* The workers serving requests at the same time.
Workers == { 1, 2 }

\* ---------------------------------------------------------- role registry

\* The six role flags of a user row, in the order the serializers list them.
RoleOrder ==
    << "store_owner", "store_manager", "inventory_manager",
       "sales_associate", "customer_service", "cashier" >>

Roles == { RoleOrder[k] : k \in 1..Len(RoleOrder) }

\* role_configs: role key -> display name (the field is is_<key>).
role_configs ==
    [ store_owner       |-> "store owner",
      store_manager     |-> "store manager",
      inventory_manager |-> "inventory manager",
      customer_service  |-> "customer service",
      cashier           |-> "cashier",
      sales_associate   |-> "sales associate" ]

NoFlags == [ r \in Roles |-> FALSE ]

FlagsOf(S) == [ r \in Roles |-> r \in S ]

\* The first-owner test with the id off by one.
SecondRegisteredId == 1 + 1

\* The id of the user who may register as the first store owner.
FirstOwnerId == 1

\* ------------------------------------------------- tokens, int() and str()

DigitChars == << "0", "1", "2", "3", "4", "5", "6", "7", "8", "9" >>

IsDigit(c) == \E d \in 1..10 : DigitChars[d] = c

DigitVal(c) == (CHOOSE d \in 1..10 : DigitChars[d] = c) - 1

RECURSIVE DigitsVal(_)
DigitsVal(cs) ==
    IF cs = << >> THEN 0
    ELSE 10 * DigitsVal(SubSeq(cs, 1, Len(cs) - 1)) + DigitVal(cs[Len(cs)])

AllDigits(cs) == cs # << >> /\ \A k \in 1..Len(cs) : IsDigit(cs[k])

RECURSIVE Strip(_)
Strip(cs) ==
    IF cs = << >> THEN cs
    ELSE IF cs[1] = " " THEN Strip(Tail(cs))
    ELSE IF cs[Len(cs)] = " " THEN Strip(SubSeq(cs, 1, Len(cs) - 1))
    ELSE cs

\* Python's int(str): surrounding whitespace is stripped, one optional sign,
\* then decimal digits; anything else raises ValueError.
Signed(cs) == cs # << >> /\ cs[1] \in { "-", "+" }

Unsigned(cs) == IF Signed(cs) THEN Tail(cs) ELSE cs

RaisesValueError(tok) == ~AllDigits(Unsigned(Strip(tok)))

int(tok) ==
    LET cs == Strip(tok)
    IN  IF Signed(cs) /\ cs[1] = "-" THEN 0 - DigitsVal(Unsigned(cs))
        ELSE DigitsVal(Unsigned(cs))

RECURSIVE NatStr(_)
NatStr(n) ==
    IF n < 10 THEN << DigitChars[n + 1] >>
    ELSE NatStr(n \div 10) \o << DigitChars[(n % 10) + 1] >>

\* Python's str(int).
str(n) == IF n < 0 THEN << "-" >> \o NatStr(0 - n) ELSE NatStr(n)

\* The user_ids tokens a request body may carry: the ids of the users, one
\* well-formed id of no user, a negative id, and a token that is no number.
Tokens ==
    { str(u) : u \in UserIds } \cup { str(NumUsers + 1), << "-", "1" >>, << "x" >> }

RECURSIVE SeqsUpTo(_, _)
SeqsUpTo(S, n) ==
    IF n = 0 THEN { << >> }
    ELSE LET shorter == SeqsUpTo(S, n - 1)
         IN  shorter \cup { Append(q, x) : q \in { t \in shorter : Len(t) = n - 1 }, x \in S }

Batches == SeqsUpTo(Tokens, MaxBatch)

\* The batches process_dismissals is called with.
HandlerBatches == SeqsUpTo({ str(u) : u \in UserIds } \cup { << "x" >> }, MaxBatch) \ { << >> }

Username(u) == << "user", u >>

\* ------------------------------------------------------------------ state

VARIABLES
    users,      \* CustomUser rows: id -> the six role flags
    owners,     \* StoreOwner table: user id -> number of rows pointing at the user
    call        \* per worker: the request it is serving and its local variables

vars == << users, owners, call >>

\* The HTTP status codes of rest_framework.status the views answer with.
HTTP_200_OK == 200
HTTP_400_BAD_REQUEST == 400
HTTP_403_FORBIDDEN == 403

AssignActions ==
    [ assign_store_owner       |-> "store_owner",
      assign_store_manager     |-> "store_manager",
      assign_inventory_manager |-> "inventory_manager",
      assign_sales_associate   |-> "sales_associate",
      assign_customer_service  |-> "customer_service",
      assign_cashier           |-> "cashier" ]

Actions == DOMAIN AssignActions \cup { "dismiss_role" }

Idle ==
    [ pc               |-> "idle",
      action           |-> "none",
      method           |-> "none",
      role_type        |-> "none",
      user_role        |-> "none",
      current_user_id  |-> 0,
      user             |-> NoFlags,
      user_ids         |-> << >>,
      valid_ids        |-> << >>,
      found            |-> {},
      existing_user_ids |-> [ u \in UserIds |-> NoFlags ],
      idx              |-> 0,
      assigned_users   |-> << >>,
      dismissed_users  |-> << >>,
      not_found_ids    |-> << >>,
      invalid_ids      |-> << >>,
      no_roles_ids     |-> << >>,
      error_messages   |-> << >>,
      status           |-> 0,
      raised           |-> "none",
      body             |-> "none",
      \* history: the user rows as process_dismissals found them when called
      before           |-> [ u \in UserIds |-> NoFlags ] ]

\* The role flags a user may be registered with: CustomUserCreateSerializer
\* accepts the six is_<role> fields.
InitProfiles == { {}, { "store_owner" }, { "store_manager" } }

Init ==
    /\ users \in [ UserIds -> { FlagsOf(S) : S \in InitProfiles } ]
    /\ owners = [ u \in UserIds |-> 0 ]
    /\ call = [ w \in Workers |-> Idle ]

\* ------------------------------------------------------------ permissions

\* get_permissions: the permission class of each action.
get_permissions(action) ==
    IF action \in { "assign_store_owner", "assign_store_manager", "dismiss_role" }
    THEN "IsStoreOwner"
    ELSE IF action \in { "assign_inventory_manager" } THEN "IsStoreManager"
    ELSE IF action = "assign_sales_associate" THEN "IsStoreManager"
    ELSE "IsStoreManager|IsStoreOwner"

\* users.permissions: a permission class admits the users holding its role.
has_permission(permission, user) ==
    CASE permission = "IsStoreOwner"   -> user["store_owner"]
      [] permission = "IsStoreManager" -> user["store_manager"]
      [] OTHER -> user["store_manager"] \/ user["store_owner"]

\* ---------------------------------------------------------- the responses

\* The view returns: the handler's fetched users and loop position are gone,
\* what it collected is kept as the outcome of the call.
Finished(c) ==
    [ c EXCEPT !.pc = "done", !.found = {}, !.idx = 0,
               !.existing_user_ids = Idle.existing_user_ids ]

Response(c, body, status) ==
    [ Finished(c) EXCEPT !.status = status, !.body = body ]

\* An exception no view catches: the request ends with it, answered 500.
Raise(c, exception) ==
    [ Finished(c) EXCEPT !.status = 500, !.raised = exception ]

\* ------------------------------------------- process_assignments, locally

\* Lines 150-160 and 238-248: the conversion loop. A token int() rejects goes
\* to `rejected`; one equal to the caller's id adds `message` and is skipped.
RECURSIVE ConvertIds(_, _, _)
ConvertIds(current_user_id, user_ids, message) ==
    IF user_ids = << >>
    THEN [ valid_ids |-> << >>, rejected |-> << >>, error_messages |-> << >> ]
    ELSE LET rest == ConvertIds(current_user_id, Tail(user_ids), message)
         IN  IF RaisesValueError(Head(user_ids))
             THEN [ rest EXCEPT !.rejected = << Head(user_ids) >> \o @ ]
             ELSE IF int(Head(user_ids)) = current_user_id
             THEN [ rest EXCEPT !.error_messages = << message >> \o @ ]
             ELSE [ rest EXCEPT !.valid_ids = << int(Head(user_ids)) >> \o @ ]

SelfAssignMessage(role_type) ==
    [ text |-> "Cannot assign role to yourself", username |-> Username(0),
      display_name |-> role_configs[role_type] ]

AlreadyMessage(u, role_type) ==
    [ text |-> "User is already a", username |-> Username(u),
      display_name |-> role_configs[role_type] ]

SelfDismissMessage ==
    [ text |-> "You cannot dismiss yourself", username |-> Username(0),
      display_name |-> "" ]

\* Line 185: process_assignments calls _build_process_assignment_response_messages,
\* and the class defines _build_process_assignment_response__messages (line 194):
\* the attribute lookup raises AttributeError.
HandlerMethods ==
    { "process_assignments", "_build_process_assignment_response__messages",
      "process_dismissals", "_build_process_dismissal_response_messages",
      "_format_empty_response" }

BuildAssignmentResponse(c) ==
    IF "_build_process_assignment_response_messages" \in HandlerMethods
    THEN [ c EXCEPT !.pc = "return" ]
    ELSE Raise(c, "AttributeError")

\* Lines 145-162: the locals, the conversion loop, and the branch on valid_ids.
BeginAssignments(c, role_type) ==
    LET conv == ConvertIds(c.current_user_id, c.user_ids, SelfAssignMessage(role_type))
        c1 == [ c EXCEPT !.method = "process_assignments",
                         !.role_type = role_type,
                         !.valid_ids = conv.valid_ids,
                         !.invalid_ids = conv.rejected,
                         !.error_messages = conv.error_messages ]
    IN  IF conv.valid_ids # << >>
        THEN [ c1 EXCEPT !.pc = "fetch" ]
        ELSE BuildAssignmentResponse(c1)

\* The views' common part with the test of the empty list left out.
AssignViewUnchecked(c, role_type) == BeginAssignments(c, role_type)

\* The views' common part: user_ids read, the empty check, then the handler.
AssignView(c, role_type) ==
    IF c.user_ids = << >>
    THEN Response(c, "No user IDs provided.", HTTP_400_BAD_REQUEST)
    ELSE BeginAssignments(c, role_type)

\* ------------------------------------------------------ the HTTP requests

\* A request arrives: authentication loads request.user, the permission of
\* the action is checked, and the view runs up to its first query.
\* dismiss_role (line 547) names RoleAssignmentAndDismissalHandler, which is an
\* attribute of the CustomUserViewSet class and no global of the module:
\* NameError.
ModuleGlobals ==
    { "status", "viewsets", "pagination", "PageNumberPagination", "action",
      "Response", "UserRoles", "CustomUser", "StoreOwner", "IsStoreOwner",
      "IsStoreManager", "IsSelfProfile", "IsInventoryManager",
      "CustomUserSerializer", "CustomUserUpdateSerializer",
      "CustomUserCreateSerializer", "CustomUserViewSet" }

dismiss_role(c) ==
    IF c.user_ids = << >>
    THEN Response(c, "User IDs must be provided.", HTTP_400_BAD_REQUEST)
    ELSE IF "RoleAssignmentAndDismissalHandler" \in ModuleGlobals
    THEN [ c EXCEPT !.pc = "dismiss" ]
    ELSE Raise(c, "NameError")

Dispatch(c) ==
    IF ~has_permission(get_permissions(c.action), c.user)
    THEN Response(c, "permission denied", HTTP_403_FORBIDDEN)
    ELSE IF c.action = "assign_store_owner" THEN [ c EXCEPT !.pc = "exists" ]
    ELSE IF c.action = "dismiss_role" THEN dismiss_role(c)
    ELSE AssignView(c, AssignActions[c.action])

Receive(w, actions, batches) ==
    /\ call[w].pc = "idle"
    /\ \E action \in actions, actor \in UserIds, user_ids \in batches :
         call' = [ call EXCEPT ![w] =
                     Dispatch([ Idle EXCEPT !.action = action,
                                            !.current_user_id = actor,
                                            !.user = users[actor],
                                            !.user_ids = user_ids ]) ]
    /\ UNCHANGED << users, owners >>

\* The first-owner test asking for more than one row instead of any row.
SeveralStoreOwnersExist == \E u \in UserIds : owners[u] > 1

\* StoreOwner.objects.exists()
StoreOwnerExists == \E u \in UserIds : owners[u] > 0

\* assign_store_owner, lines 343-348 and 357-367: the first-owner test, and
\* either the 403, the first-owner path, or the batch path.
CheckFirstOwner(w) ==
    /\ call[w].pc = "exists"
    /\ call' = [ call EXCEPT ![w] =
                   IF ~StoreOwnerExists
                   THEN IF call[w].current_user_id # FirstOwnerId
                        THEN Response(@, "Only the first registered user (ID=1)",
                                      HTTP_403_FORBIDDEN)
                        ELSE [ @ EXCEPT !.pc = "create" ]
                   ELSE AssignView(@, "store_owner") ]
    /\ UNCHANGED << users, owners >>

\* The user column declared as a plain ForeignKey: no row is ever refused.
NoUniqueConstraint(u) == FALSE

\* The OneToOneField of migration 0002 is a unique column: a second row for
\* the same user is refused with IntegrityError.
UniqueViolation(u) == owners[u] > 0

\* The first-owner path with the create statement left out.
CreateFirstOwnerSkipped(w) ==
    /\ call[w].pc = "create"
    /\ call' = [ call EXCEPT ![w].pc = "save" ]
    /\ UNCHANGED << users, owners >>

\* Line 349: StoreOwner.objects.create(user=request.user)
CreateFirstOwner(w) ==
    /\ call[w].pc = "create"
    /\ LET u == call[w].current_user_id
       IN  IF UniqueViolation(u)
           THEN /\ call' = [ call EXCEPT ![w] = Raise(@, "IntegrityError") ]
                /\ UNCHANGED owners
           ELSE /\ owners' = [ owners EXCEPT ![u] = @ + 1 ]
                /\ call' = [ call EXCEPT ![w].pc = "save" ]
    /\ UNCHANGED users

\* Lines 350-355: the flag is set on request.user and save() writes the whole
\* row as request.user holds it.
SaveFirstOwner(w) ==
    /\ call[w].pc = "save"
    /\ LET u == call[w].current_user_id
           row == [ call[w].user EXCEPT !["store_owner"] = TRUE ]
       IN  /\ users' = [ users EXCEPT ![u] = row ]
           /\ call' = [ call EXCEPT ![w] =
                          Response([ @ EXCEPT !.user = row ],
                                   "You have been assigned as the first store owner.",
                                   HTTP_200_OK) ]
    /\ UNCHANGED owners

\* Lines 164-165 and 252-253: CustomUser.objects.filter(id__in=valid_ids), read
\* into a dict.
FetchUsers(w) ==
    /\ call[w].pc = "fetch"
    /\ LET ids == { call[w].valid_ids[k] : k \in 1..Len(call[w].valid_ids) } \cap UserIds
       IN  call' = [ call EXCEPT ![w] =
                       [ @ EXCEPT !.pc = IF call[w].method = "process_dismissals"
                                        THEN "dismiss" ELSE "assign",
                                  !.found = ids,
                                  !.existing_user_ids =
                                      [ u \in UserIds |-> IF u \in ids THEN users[u] ELSE NoFlags ],
                                  !.idx = 1 ] ]
    /\ UNCHANGED << users, owners >>

\* After an iteration of the loop over valid_ids: the next one, or line 185.
NextAssignment(c) ==
    IF c.idx < Len(c.valid_ids)
    THEN [ c EXCEPT !.idx = @ + 1 ]
    ELSE BuildAssignmentResponse(c)

\* The loop with the test of the flag left out.
NeverHasRole(c, user_id) == FALSE

\* Line 174: getattr(user, self.config['field']) on the fetched user object.
AlreadyHasRole(c, user_id) == c.existing_user_ids[user_id][c.role_type]

\* Lines 168-182: one iteration of the loop over valid_ids.
AssignTarget(w) ==
    /\ call[w].pc = "assign"
    /\ LET c == call[w]
           user_id == c.valid_ids[c.idx]
           field == c.role_type
       IN  IF user_id \notin c.found
           THEN /\ call' = [ call EXCEPT ![w] =
                               NextAssignment([ c EXCEPT !.not_found_ids = Append(@, str(user_id)) ]) ]
                /\ UNCHANGED users
           ELSE IF AlreadyHasRole(c, user_id)
           THEN /\ call' = [ call EXCEPT ![w] =
                               NextAssignment(
                                 [ c EXCEPT !.error_messages = Append(@, AlreadyMessage(user_id, field)),
                                            !.invalid_ids = Append(@, str(user_id)) ]) ]
                /\ UNCHANGED users
           ELSE /\ users' = [ users EXCEPT ![user_id][field] = TRUE ]
                /\ call' = [ call EXCEPT ![w] =
                               NextAssignment(
                                 [ c EXCEPT !.existing_user_ids[user_id][field] = TRUE,
                                            !.assigned_users = Append(@, Username(user_id)) ]) ]
    /\ UNCHANGED owners

\* The response is sent and the worker takes the next request.
Respond(w) ==
    /\ call[w].pc = "done"
    /\ call' = [ call EXCEPT ![w] = Idle ]
    /\ UNCHANGED << users, owners >>

Step(w) ==
    \/ CheckFirstOwner(w)
    \/ CreateFirstOwner(w)
    \/ SaveFirstOwner(w)
    \/ FetchUsers(w)
    \/ AssignTarget(w)
    \/ Respond(w)

\* Requests served one after the other.
Next ==
    \/ Receive(1, Actions, Batches)
    \/ Step(1)

Spec == Init /\ [][Next]_vars

\* Requests served concurrently by the workers, their statements interleaved.
ConcurrentEndpoints == { "assign_store_owner", "assign_cashier", "dismiss_role" }

\* Concurrent requests carry no token or the id of one user.
ConcurrentBatches == { << >> } \cup { << str(u) >> : u \in UserIds }

ConcurrentNext ==
    \E w \in Workers :
        \/ Receive(w, ConcurrentEndpoints, ConcurrentBatches)
        \/ Step(w)

\* The users are registered with no role or as store owners.
ConcurrentInit ==
    /\ users \in [ UserIds -> { FlagsOf(S) : S \in { {}, { "store_owner" } } } ]
    /\ owners = [ u \in UserIds |-> 0 ]
    /\ call = [ w \in Workers |-> Idle ]

ConcurrentSpec == ConcurrentInit /\ [][ConcurrentNext]_vars

\* The store in which user 1 was registered with is_store_owner, the flag the
\* permission of assign_store_owner asks for, and nobody else holds a role.
FirstOwnerInit ==
    /\ users = [ u \in UserIds |->
                   IF u = FirstOwnerId THEN FlagsOf({ "store_owner" }) ELSE NoFlags ]
    /\ owners = [ u \in UserIds |-> 0 ]
    /\ call = [ w \in Workers |-> Idle ]

FirstOwnerSpec == FirstOwnerInit /\ [][Next]_vars

\* User 1 asks to be registered as the first store owner.
FirstOwnerRequest ==
    /\ call[1].pc = "idle"
    /\ call' = [ call EXCEPT ![1] =
                   Dispatch([ Idle EXCEPT !.action = "assign_store_owner",
                                          !.current_user_id = FirstOwnerId,
                                          !.user = users[FirstOwnerId] ]) ]
    /\ UNCHANGED << users, owners >>

\* Requests served one after the other, each carrying at most one id.
BootstrapNext ==
    \/ Receive(1, Actions, ConcurrentBatches)
    \/ Step(1)

\* Every request received is served to its end, and user 1 asks to be
\* registered again and again.
BootstrapSpec ==
    /\ Init
    /\ [][BootstrapNext]_vars
    /\ WF_vars(Step(1))
    /\ SF_vars(FirstOwnerRequest)

\* ------------------------------------------------------ process_dismissals

\* CustomUser.get_role: the first role flag that is set, in the order of the
\* six roles, or none.
get_role(user) ==
    IF \E k \in 1..Len(RoleOrder) : user[RoleOrder[k]]
    THEN RoleOrder[CHOOSE k \in 1..Len(RoleOrder) :
                     /\ user[RoleOrder[k]]
                     /\ \A j \in 1..(k - 1) : ~user[RoleOrder[j]]]
    ELSE "none"

\* Lines 283-293: _build_process_dismissal_response_messages reads self.config
\* for the dismissed and the no-role messages; __init__ sets config only when
\* a role_type is given (lines 140-141).
BuildDismissalResponse(c) ==
    IF c.role_type = "none" /\ (c.dismissed_users # << >> \/ c.no_roles_ids # << >>)
    THEN Raise(c, "AttributeError")
    ELSE [ Finished(c) EXCEPT !.body = "result" ]

\* Lines 232-250: the locals, the conversion loop, and the branch on valid_ids.
BeginDismissals(c, role_type) ==
    LET conv == ConvertIds(c.current_user_id, c.user_ids, SelfDismissMessage)
        c1 == [ c EXCEPT !.method = "process_dismissals",
                         !.role_type = role_type,
                         !.valid_ids = conv.valid_ids,
                         !.not_found_ids = conv.rejected,
                         !.error_messages = conv.error_messages ]
    IN  IF conv.valid_ids # << >>
        THEN [ c1 EXCEPT !.pc = "fetch" ]
        ELSE BuildDismissalResponse(c1)

\* RoleAssignmentAndDismissalHandler(role_type).process_dismissals(actor, ids),
\* called on the handler class itself.
CallProcessDismissals(w) ==
    /\ call[w].pc = "idle"
    /\ \E role_type \in { "none", "store_owner" }, actor \in UserIds,
          user_ids \in HandlerBatches :
         call' = [ call EXCEPT ![w] =
                     BeginDismissals([ Idle EXCEPT !.action = "handler",
                                                   !.current_user_id = actor,
                                                   !.user_ids = user_ids,
                                                   !.before = users ],
                                     role_type) ]
    /\ UNCHANGED << users, owners >>

\* After an iteration of the loop over valid_ids: the next one, or line 283.
NextDismissal(c) ==
    IF c.idx < Len(c.valid_ids)
    THEN [ c EXCEPT !.pc = "dismiss", !.idx = @ + 1 ]
    ELSE BuildDismissalResponse(c)

\* hasattr(user, 'store_owner_entry'): the reverse one-to-one lookup.
HasStoreOwnerEntry(u) == owners[u] > 0

\* The loop reporting a user without a role as dismissed.
DismissTargetWithoutRole(w) ==
    /\ call[w].pc = "dismiss"
    /\ LET c == call[w]
           user_id == c.valid_ids[c.idx]
       IN  call' = [ call EXCEPT ![w] =
             IF user_id \notin c.found
             THEN NextDismissal([ c EXCEPT !.not_found_ids = Append(@, str(user_id)) ])
             ELSE LET user_role == get_role(c.existing_user_ids[user_id])
                  IN  IF user_role = "none"
                      THEN NextDismissal([ c EXCEPT !.dismissed_users = Append(@, Username(user_id)) ])
                      ELSE IF user_role = "store_owner" /\ HasStoreOwnerEntry(user_id)
                      THEN [ c EXCEPT !.pc = "delete_entry", !.user_role = user_role ]
                      ELSE [ c EXCEPT !.pc = "clear", !.user_role = user_role ] ]
    /\ UNCHANGED << users, owners >>

\* Lines 256-270: the target is looked up, its role resolved, and for a store
\* owner the StoreOwner row is looked for.
DismissTarget(w) ==
    /\ call[w].pc = "dismiss"
    /\ LET c == call[w]
           user_id == c.valid_ids[c.idx]
       IN  call' = [ call EXCEPT ![w] =
             IF user_id \notin c.found
             THEN NextDismissal([ c EXCEPT !.not_found_ids = Append(@, str(user_id)) ])
             ELSE LET user_role == get_role(c.existing_user_ids[user_id])
                  IN  IF user_role = "none"
                      THEN NextDismissal([ c EXCEPT !.no_roles_ids = Append(@, str(user_id)) ])
                      ELSE IF user_role = "store_owner" /\ HasStoreOwnerEntry(user_id)
                      THEN [ c EXCEPT !.pc = "delete_entry", !.user_role = user_role ]
                      ELSE [ c EXCEPT !.pc = "clear", !.user_role = user_role ] ]
    /\ UNCHANGED << users, owners >>

\* Line 271: user.store_owner_entry.delete()
DeleteStoreOwnerEntry(w) ==
    /\ call[w].pc = "delete_entry"
    /\ LET user_id == call[w].valid_ids[call[w].idx]
       IN  owners' = [ owners EXCEPT ![user_id] = IF @ > 0 THEN @ - 1 ELSE 0 ]
    /\ call' = [ call EXCEPT ![w].pc = "clear" ]
    /\ UNCHANGED users

\* Lines 274-280: the flag of the resolved role is cleared and saved alone.
ClearRole(w) ==
    /\ call[w].pc = "clear"
    /\ LET c == call[w]
           user_id == c.valid_ids[c.idx]
           role_field == c.user_role
       IN  /\ users' = [ users EXCEPT ![user_id][role_field] = FALSE ]
           /\ call' = [ call EXCEPT ![w] =
                          NextDismissal(
                            [ c EXCEPT !.existing_user_ids[user_id][role_field] = FALSE,
                                       !.dismissed_users = Append(@, Username(user_id)) ]) ]
    /\ UNCHANGED owners

\* The program with process_dismissals called on the handler, beside the
\* requests that register the first store owner.
HandlerNext ==
    \E w \in Workers :
        \/ Receive(w, { "assign_store_owner" }, { << >> })
        \/ CallProcessDismissals(w)
        \/ CheckFirstOwner(w)
        \/ CreateFirstOwner(w)
        \/ SaveFirstOwner(w)
        \/ FetchUsers(w)
        \/ DismissTarget(w)
        \/ DeleteStoreOwnerEntry(w)
        \/ ClearRole(w)
        \/ Respond(w)

HandlerSpec == Init /\ [][HandlerNext]_vars

\* The same calls served one after the other, on users registered with no
\* role, one role or two roles.
DismissalProfiles ==
    { {}, { "store_manager" }, { "store_manager", "cashier" }, { "store_owner", "cashier" } }

DismissalInit ==
    /\ users \in [ UserIds -> { FlagsOf(S) : S \in DismissalProfiles } ]
    /\ owners = [ u \in UserIds |-> 0 ]
    /\ call = [ w \in Workers |-> Idle ]

DismissalNext ==
    \/ Receive(1, { "assign_store_owner" }, { << >> })
    \/ CallProcessDismissals(1)
    \/ CheckFirstOwner(1)
    \/ CreateFirstOwner(1)
    \/ SaveFirstOwner(1)
    \/ FetchUsers(1)
    \/ DismissTarget(1)
    \/ DeleteStoreOwnerEntry(1)
    \/ ClearRole(1)
    \/ Respond(1)

DismissalSpec == DismissalInit /\ [][DismissalNext]_vars

\* ------------------------------------------------------------- the claims

Range(q) == { q[k] : k \in 1..Len(q) }

NoStoreOwnerRecord == \A u \in UserIds : owners[u] = 0

FirstOwnerForbidden == "Only the first registered user (ID=1)"

FirstOwnerAssigned == "You have been assigned as the first store owner."

\* The positions of the batch whose token int() reads as the caller's id.
SelfPositions(c) ==
    { k \in 1..Len(c.user_ids) :
        ~RaisesValueError(c.user_ids[k]) /\ int(c.user_ids[k]) = c.current_user_id }

\* C1: while no StoreOwner row exists, an assign_store_owner request of a
\* caller whose id is not 1 is answered 403 and neither a user row nor the
\* StoreOwner table changes, whatever user_ids the request carries.
C1_OthersForbidden ==
    [][ \A w \in Workers :
          LET c == call[w]
              d == call'[w]
          IN  /\ ( /\ c.pc = "exists"
                   /\ c.current_user_id # 1
                   /\ NoStoreOwnerRecord
                   /\ d # c )
                 => /\ d.pc = "done"
                    /\ d.status = 403
                    /\ users' = users
                    /\ owners' = owners
              /\ ( /\ c.pc = "idle"
                   /\ d.action = "assign_store_owner"
                   /\ d.current_user_id # 1
                   /\ NoStoreOwnerRecord )
                 => /\ d.pc = "exists" \/ (d.pc = "done" /\ d.status = 403)
                    /\ users' = users
                    /\ owners' = owners ]_vars

C1_Witness ==
    \E w \in Workers :
        /\ call[w].action = "assign_store_owner"
        /\ call[w].current_user_id # 1
        /\ call[w].user_ids # << >>
        /\ call[w].pc = "done"
        /\ call[w].status = 403
        /\ call[w].body = FirstOwnerForbidden
        /\ NoStoreOwnerRecord

\* C2: while no StoreOwner row exists, the first-owner test sends caller 1 to
\* the first-owner path; the path writes only user 1's row and StoreOwner
\* row, and a request it answers leaves user 1 with the store-owner flag and
\* exactly one StoreOwner row, the batch code never entered whatever user_ids
\* are (a registration that lost a race to another ends with IntegrityError
\* and user 1 still has exactly one row).
C2_FirstOwnerPath ==
    /\ [] ( \A w \in Workers :
              LET c == call[w]
              IN  /\ ( /\ c.action = "assign_store_owner"
                       /\ c.pc = "done"
                       /\ c.body = FirstOwnerAssigned )
                     => /\ c.current_user_id = 1
                        /\ c.status = 200
                        /\ users[1]["store_owner"]
                        /\ owners[1] = 1
                        /\ c.method = "none"
                        /\ c.valid_ids = << >>
                        /\ c.assigned_users = << >>
                  /\ ( c.pc = "done" /\ c.raised = "IntegrityError" )
                     => /\ c.current_user_id = 1
                        /\ owners[1] = 1
                        /\ c.method = "none" )
    /\ [][ \A w \in Workers :
             LET c == call[w]
                 d == call'[w]
             IN  /\ ( /\ c.pc = "exists"
                      /\ c.current_user_id = 1
                      /\ NoStoreOwnerRecord
                      /\ d # c )
                    => d.pc = "create" /\ users' = users /\ owners' = owners
                 /\ ( c.pc \in { "create", "save" } /\ d # c )
                    => /\ \A u \in UserIds \ { 1 } :
                            users'[u] = users[u] /\ owners'[u] = owners[u]
                       /\ c.pc = "save" => d.status = 200 /\ d.body = FirstOwnerAssigned ]_vars

C2_Witness ==
    \E w \in Workers :
        /\ call[w].action = "assign_store_owner"
        /\ call[w].current_user_id = 1
        /\ Len(call[w].user_ids) = 1
        /\ call[w].pc = "done"
        /\ call[w].status = 200
        /\ call[w].body = FirstOwnerAssigned
        /\ owners[1] = 1

C4_AtMostOneRecord == \A u \in UserIds : owners[u] <= 1

\* Two first-owner registrations raced and the second create was refused.
C4_Witness ==
    \E w \in Workers :
        /\ call[w].pc = "done"
        /\ call[w].raised = "IntegrityError"
        /\ owners[call[w].current_user_id] = 1

\* C5: when assign_store_owner ran the batch path, every user it assigned
\* holds exactly one StoreOwner row when the call ends.
C5_AssignedHoldOneRecord ==
    \A w \in Workers :
        ( /\ call[w].action = "assign_store_owner"
          /\ call[w].method = "process_assignments"
          /\ call[w].pc = "done" )
        => \A u \in UserIds :
             Username(u) \in Range(call[w].assigned_users) => owners[u] = 1

\* C6: a call with a non-empty batch never ends with an exception: it ends
\* with the batch result, or with the 403 or the first-owner answer.
C6_EndsWithResult ==
    \A w \in Workers :
        ( call[w].pc = "done" /\ call[w].user_ids # << >> )
        => /\ call[w].raised = "none"
           /\ \/ call[w].status = 403
              \/ call[w].body = FirstOwnerAssigned
              \/ call[w].body = "result"

\* A token that is no decimal numeral of a positive integer.
NotPositiveInteger(tok) == RaisesValueError(tok) \/ int(tok) <= 0

\* C7: when an assign call ends, it has returned a result in which every
\* token that is no positive integer is in the invalid list, every well-formed
\* id of no user is in the not-found list, every user lacking the role is in
\* the assigned list with the flag set, and there is no errors list when the
\* batch has no self-reference and no target already holding the role.
C7_ResultCategories ==
    \A w \in Workers :
        LET c == call[w]
        IN  ( c.method = "process_assignments" /\ c.pc = "done" )
            => /\ c.raised = "none"
               /\ \A k \in 1..Len(c.user_ids) \ SelfPositions(c) :
                    LET tok == c.user_ids[k]
                    IN  IF NotPositiveInteger(tok)
                        THEN /\ tok \in Range(c.invalid_ids)
                             /\ tok \notin Range(c.not_found_ids)
                        ELSE IF int(tok) \notin UserIds
                        THEN /\ str(int(tok)) \in Range(c.not_found_ids)
                             /\ str(int(tok)) \notin Range(c.invalid_ids)
                        ELSE /\ users[int(tok)][c.role_type]
                             /\ \/ Username(int(tok)) \in Range(c.assigned_users)
                                \/ str(int(tok)) \in Range(c.invalid_ids)

\* C8: when a call whose batch names the caller ends, it has returned a result
\* with exactly one self-reference message, and the caller's own row and
\* StoreOwner row are as they were.
C8_SelfReferenceOnce ==
    \A w \in Workers :
        LET c == call[w]
        IN  ( /\ c.pc = "done"
              /\ c.method = "process_assignments" \/ c.action = "dismiss_role"
              /\ c.status # 403
              /\ SelfPositions(c) # {} )
            => /\ c.raised = "none"
               /\ users[c.current_user_id] = c.user
               /\ Cardinality({ k \in 1..Len(c.error_messages) :
                                  c.error_messages[k].username = Username(0) }) = 1

\* C9: an iteration of the assignment loop on a user who holds the role
\* changes no row, adds the id to the invalid list and the already-has-role
\* message to the errors, and leaves the assigned list alone.
C9_AlreadyHeldRole ==
    [][ \A w \in Workers :
          LET c == call[w]
              d == call'[w]
          IN  ( /\ c.pc = "assign"
                /\ d # c
                /\ c.valid_ids[c.idx] \in UserIds
                /\ users[c.valid_ids[c.idx]][c.role_type] )
              => /\ users' = users
                 /\ owners' = owners
                 /\ d.invalid_ids = Append(c.invalid_ids, str(c.valid_ids[c.idx]))
                 /\ d.error_messages =
                        Append(c.error_messages,
                               [ text |-> "User is already a",
                                 username |-> Username(c.valid_ids[c.idx]),
                                 display_name |-> role_configs[c.role_type] ])
                 /\ d.assigned_users = c.assigned_users
                 /\ d.not_found_ids = c.not_found_ids ]_vars

C9_Witness ==
    \E w \in Workers, u \in UserIds :
        /\ call[w].method = "process_assignments"
        /\ users[u][call[w].role_type]
        /\ str(u) \in Range(call[w].invalid_ids)
        /\ AlreadyMessage(u, call[w].role_type) \in Range(call[w].error_messages)
        /\ Username(u) \notin Range(call[w].assigned_users)

\* C10: a dismissal never leaves a state in which a store owner's StoreOwner
\* row is deleted and the store-owner flag is still set.
C10_DismissalAtomic ==
    [][ \A u \in UserIds :
          owners'[u] < owners[u] => ~users'[u]["store_owner"] ]_vars

\* The permission of the action admits the caller of the request.
Permitted(c) == has_permission(get_permissions(c.action), c.user)

\* C11 as stated: a request with an empty user_ids list that the permission
\* layer admits is answered 400 at once on every endpoint, in every state:
\* it is never at a database statement and no row changes.
C11_EmptyBatchRejected ==
    [][ \A w \in Workers :
          LET c == call[w]
              d == call'[w]
          IN  /\ ( /\ c.pc = "idle"
                   /\ d.pc # "idle"
                   /\ d.user_ids = << >>
                   /\ Permitted(d) )
                 => d.pc = "done" /\ d.status = 400
              /\ ( c.pc # "idle" /\ c.user_ids = << >> /\ d # c )
                 => users' = users /\ owners' = owners ]_vars

\* C11: a request with an empty user_ids list that the permission layer admits
\* is answered 400 with no query made and no row changed on dismiss_role and
\* on the five assign endpoints other than assign_store_owner; on
\* assign_store_owner it is answered 400 with no row changed when the
\* first-owner test finds a StoreOwner row.
C11_EmptyBatchRejectedPastFirstOwner ==
    [][ \A w \in Workers :
          LET c == call[w]
              d == call'[w]
          IN  /\ ( /\ c.pc = "idle"
                   /\ d.pc # "idle"
                   /\ d.user_ids = << >>
                   /\ d.action \in Actions \ { "assign_store_owner" }
                   /\ Permitted(d) )
                 => /\ d.pc = "done"
                    /\ d.status = 400
                    /\ d.raised = "none"
                    /\ users' = users
                    /\ owners' = owners
              /\ ( /\ c.pc = "exists"
                   /\ c.user_ids = << >>
                   /\ ~NoStoreOwnerRecord
                   /\ d # c )
                 => /\ d.pc = "done"
                    /\ d.status = 400
                    /\ d.raised = "none"
                    /\ users' = users
                    /\ owners' = owners ]_vars

C11_Witness ==
    \E w \in Workers :
        /\ call[w].action = "assign_store_owner"
        /\ call[w].user_ids = << >>
        /\ call[w].pc = "done"
        /\ call[w].status = 400
        /\ call[w].body = "No user IDs provided."
        /\ ~NoStoreOwnerRecord

\* C12: a call with a non-empty batch that the permission layer admits and that
\* is no refused first-owner registration ends with status 200, whatever lists
\* its targets went to.
C12_NonEmptyBatchSucceeds ==
    \A w \in Workers :
        LET c == call[w]
        IN  ( /\ c.pc = "done"
              /\ c.user_ids # << >>
              /\ Permitted(c)
              /\ c.body # FirstOwnerForbidden )
            => c.status = 200

\* C13: an iteration of the dismissal loop on an existing user with no role
\* flag set, in the row and in the user object the call fetched, changes no
\* row and deletes no StoreOwner row, adds the id to the no-role list, and
\* leaves the dismissed list alone.
C13_NoRoleNoMutation ==
    [][ \A w \in Workers :
          LET c == call[w]
              d == call'[w]
          IN  ( /\ c.pc = "dismiss"
                /\ d # c
                /\ c.valid_ids[c.idx] \in c.found
                /\ users[c.valid_ids[c.idx]] = NoFlags
                /\ c.existing_user_ids[c.valid_ids[c.idx]] = NoFlags )
              => /\ users' = users
                 /\ owners' = owners
                 /\ d.pc \notin { "delete_entry", "clear" }
                 /\ d.no_roles_ids = Append(c.no_roles_ids, str(c.valid_ids[c.idx]))
                 /\ d.dismissed_users = c.dismissed_users
                 /\ d.not_found_ids = c.not_found_ids ]_vars

C13_Witness ==
    \E w \in Workers, u \in UserIds :
        /\ call[w].method = "process_dismissals"
        /\ users[u] = NoFlags
        /\ str(u) \in Range(call[w].no_roles_ids)
        /\ Username(u) \notin Range(call[w].dismissed_users)
        /\ call[w].pc = "done"

\* C14: when a call of process_dismissals ends, every existing target that
\* held a role when the call began has lost exactly the first flag it had set
\* then, in the order of the six roles, keeps its other flags as they were, and
\* is listed once in the dismissed list, however often its id is in the batch.
C14_DismissClearsFirstFlag ==
    \A w \in Workers :
        LET c == call[w]
        IN  ( c.method = "process_dismissals" /\ c.pc = "done" )
            => \A u \in UserIds :
                 ( u \in Range(c.valid_ids) /\ get_role(c.before[u]) # "none" )
                 => /\ users[u] = [ c.before[u] EXCEPT ![get_role(c.before[u])] = FALSE ]
                    /\ Cardinality({ k \in 1..Len(c.dismissed_users) :
                                       c.dismissed_users[k] = Username(u) }) = 1

\* The role flag a write of the call is there to change.
WrittenFlag(c) ==
    IF c.pc = "save" THEN "store_owner"
    ELSE IF c.pc = "assign" THEN c.role_type
    ELSE c.user_role

\* C16: a write to a user row changes no flag but the one the request is
\* changing, and a role a finished request assigned is still set while no
\* request has dismissed it: no update is lost to a concurrent request.
C16_NoLostUpdate ==
    /\ [] ( \A w \in Workers, u \in UserIds :
              ( /\ call[w].pc = "done"
                /\ call[w].method = "process_assignments"
                /\ Username(u) \in Range(call[w].assigned_users) )
              => users[u][call[w].role_type] )
    /\ [][ \A w \in Workers :
             ( call'[w] # call[w] /\ call[w].pc \in { "save", "assign", "clear" } )
             => \A u \in UserIds, r \in Roles :
                  users'[u][r] # users[u][r] => r = WrittenFlag(call[w]) ]_vars

NoStoreOwnerFlag == \A u \in UserIds : ~users[u]["store_owner"]

FirstOwnerRegistered == users[FirstOwnerId]["store_owner"] /\ owners[FirstOwnerId] = 1

\* While no user holds the store-owner flag and no StoreOwner row exists, no
\* step sets the flag on a user or creates a row.
NoStoreOwnerFlagStays ==
    [][ ( NoStoreOwnerFlag /\ NoStoreOwnerRecord )
        => ( NoStoreOwnerFlag' /\ NoStoreOwnerRecord' ) ]_vars

\* C17: from an initial state in which no user holds the store-owner flag and
\* no StoreOwner row exists, user 1, who keeps asking, is eventually
\* registered: it holds the store-owner flag and a StoreOwner row.
C17_FirstOwnerReachable ==
    ( NoStoreOwnerFlag /\ NoStoreOwnerRecord ) => <>FirstOwnerRegistered

\* No request is being served.
AtRest == \A w \in Workers : call[w].pc \in { "idle", "done" }

====
